---- MODULE Spec2Model ----
(***************************************************************************)
(* Qoo10 JP beauty bestsellers: key normalisation (_norm_product_code,     *)
(* _norm_url, keyify) and the rank comparison of two snapshots             *)
(* (build_sections, build_slack_message) of app.py; the prices read off a  *)
(* product card (parse_jpy_amounts, compute_prices) and the parser's loop  *)
(* over the cards (parse_mobile_html).                                     *)
(*                                                                         *)
(* Text is a sequence of tokens.  A token is one character, except for the *)
(* few multi-character tokens that the code only ever moves around whole:  *)
(* "https:", "www.qoo10.jp", the percent escapes "%2F" "%3F" "%3D" (and    *)
(* their lower-case forms) and the missing value NaN of a table cell.      *)
(***************************************************************************)
EXTENDS Integers, Sequences, FiniteSets, TLC

VARIABLES
    pc,        \* position of the run: "call", "returned", "raised", "posted"
    df_today,  \* today's table: sequence of rows [rank, product_code, url]
    df_prev,   \* previous table: [none |-> BOOLEAN, rows |-> sequence of rows]
    S,         \* what build_sections computed (its locals and its result)
    msg,       \* what build_slack_message reports
    u_in,      \* a locator handed to _norm_url
    u_once,    \* _norm_url(u_in)
    u_twice,   \* _norm_url(_norm_url(u_in))
    u_alt,     \* a second locator, written differently from u_in
    k_alt,     \* _norm_url(u_alt)
    block_text,  \* the text of a product card handed to compute_prices
    prices,      \* what compute_prices returned: [sale, orig, pct]
    max_rank,    \* MAX_RANK, read from the environment (line 35)
    max_falling, \* MAX_FALLING (line 36)
    lis,         \* the product cards parse_mobile_html walks over
    items        \* the products parse_mobile_html returned

vars == <<pc, df_today, df_prev, S, msg, u_in, u_once, u_twice, u_alt, k_alt,
          block_text, prices, max_rank, max_falling, lis, items>>

\* The variables of the locator pair, of the prices and of the parser.
variantVars == <<u_alt, k_alt>>
priceVars == <<block_text, prices>>
parserVars == <<max_rank, max_falling, lis, items>>

\* Optional[int]: a number or None.
Some(n) == [none |-> FALSE, n |-> n]
None == [none |-> TRUE, n |-> 0]

\* line 78: sale = orig = None, line 84: pct = None
NoPrices == [sale |-> None, orig |-> None, pct |-> None]

\* line 35: the default of QOO10_MAX_RANK
MAX_RANK == 200

----------------------------------------------------------------------------
(* Token sequences *)

\* The cell of a table that holds no value (pandas NaN / None).
NaN == <<"NaN">>

\* The list a function on 1..n stands for, with its elements computed.
Tuple(f) == f \o <<>>

\* The numbers of 1..n that are in keep, in ascending order.
RECURSIVE SelectIdx(_, _)
SelectIdx(n, keep) ==
    IF n = 0 THEN <<>>
    ELSE SelectIdx(n-1, keep) \o (IF n \in keep THEN <<n>> ELSE <<>>)

\* str.lower() on one token.
LowerTok(c) ==
    CASE c = "G" -> "g"
      [] c = "A" -> "a"
      [] c = "B" -> "b"
      [] c = "%2F" -> "%2f"
      [] c = "%3F" -> "%3f"
      [] c = "%3D" -> "%3d"
      [] OTHER -> c

\* str.lower()
Lower(s) == LET f(i) == LowerTok(s[i]) IN Tuple([ix \in 1..Len(s) |-> f(ix)])

\* Index of the first c in s, 0 when there is none (str.find, 1-based).
Find(s, c) ==
    IF \E i \in 1..Len(s) : s[i] = c
    THEN CHOOSE i \in 1..Len(s) : s[i] = c /\ \A j \in 1..(i-1) : s[j] # c
    ELSE 0

\* s[i:] of Python with i the 1-based first index kept.
From(s, i) == SubSeq(s, i, Len(s))

\* str.startswith
StartsWith(s, p) == Len(s) >= Len(p) /\ SubSeq(s, 1, Len(p)) = p

\* str.strip(): leading and trailing blanks removed.
RECURSIVE LStrip(_)
LStrip(s) == IF s # <<>> /\ Head(s) = " " THEN LStrip(Tail(s)) ELSE s

RECURSIVE RStrip(_)
RStrip(s) == IF s # <<>> /\ s[Len(s)] = " " THEN RStrip(SubSeq(s, 1, Len(s)-1)) ELSE s

Strip(s) == RStrip(LStrip(s))

\* str.split(sep): k separators give k+1 pieces.
RECURSIVE Split(_, _)
Split(s, sep) ==
    LET i == Find(s, sep)
    IN  IF i = 0 THEN <<s>>
        ELSE <<SubSeq(s, 1, i-1)>> \o Split(From(s, i+1), sep)

\* sep.join(pieces)
RECURSIVE Join(_, _)
Join(pieces, sep) ==
    IF pieces = <<>> THEN <<>>
    ELSE IF Len(pieces) = 1 THEN pieces[1]
    ELSE pieces[1] \o <<sep>> \o Join(Tail(pieces), sep)

----------------------------------------------------------------------------
(* _norm_url, app.py 402-413 *)

\* The query parameters _norm_url drops.
BAD ==
    { <<"u","t","m","_","s","o","u","r","c","e">>,
      <<"u","t","m","_","m","e","d","i","u","m">>,
      <<"u","t","m","_","c","a","m","p","a","i","g","n">>,
      <<"u","t","m","_","t","e","r","m">>,
      <<"u","t","m","_","c","o","n","t","e","n","t">>,
      <<"c","i","d">>,
      <<"g">> }

\* urllib.parse.unquote_plus on one token of a query name or value.
UnquoteTok(c) ==
    CASE c = "+" -> " "
      [] c \in {"%2F", "%2f"} -> "/"
      [] c \in {"%3F", "%3f"} -> "?"
      [] c \in {"%3D", "%3d"} -> "="
      [] OTHER -> c

Unquote(s) == LET f(i) == UnquoteTok(s[i]) IN Tuple([ix \in 1..Len(s) |-> f(ix)])

\* urllib.parse.quote_plus on one token: letters and digits stay, a blank
\* becomes "+", the reserved characters are percent-escaped in upper case.
QuoteTok(c) ==
    CASE c = " " -> "+"
      [] c = "/" -> "%2F"
      [] c = "?" -> "%3F"
      [] c = "=" -> "%3D"
      [] OTHER -> c

Quote(s) == LET f(i) == QuoteTok(s[i]) IN Tuple([ix \in 1..Len(s) |-> f(ix)])

\* urllib.parse.urlparse: scheme, netloc, path and query of a locator.  The
\* only scheme is the token "https:"; a netloc follows "//" and ends at the
\* next "/" or "?"; the query is what follows the first "?".
UrlParse(u) ==
    LET hasScheme == u # <<>> /\ Head(u) = "https:"
        rest      == IF hasScheme THEN Tail(u) ELSE u
        hasNetloc == StartsWith(rest, <<"/", "/">>)
        after     == IF hasNetloc THEN From(rest, 3) ELSE rest
        ends      == {i \in 1..Len(after) : after[i] \in {"/", "?"}}
        delim     == IF ends = {} THEN Len(after) + 1
                     ELSE CHOOSE i \in ends : \A j \in ends : i <= j
        netloc    == IF hasNetloc THEN SubSeq(after, 1, delim-1) ELSE <<>>
        tail      == IF hasNetloc THEN From(after, delim) ELSE rest
        q         == Find(tail, "?")
    IN  [ scheme |-> hasScheme,
          netloc |-> netloc,
          path   |-> IF q = 0 THEN tail ELSE SubSeq(tail, 1, q-1),
          query  |-> IF q = 0 THEN <<>> ELSE From(tail, q+1) ]

\* urllib.parse.parse_qsl: the (name, value) pairs of a query; fields that
\* are empty, have no "=" or have an empty value are skipped.
ParseQsl(query) ==
    LET fields == Split(query, "&")
        ok(f)  == LET e == Find(f, "=") IN e # 0 /\ e < Len(f)
        keep   == {i \in 1..Len(fields) : ok(fields[i])}
        idx    == SelectIdx(Len(fields), keep)
        pair(i) == LET f == fields[idx[i]]
                       e == Find(f, "=")
                   IN  <<Unquote(SubSeq(f, 1, e-1)), Unquote(From(f, e+1))>>
    IN  Tuple([ix \in 1..Len(idx) |-> pair(ix)])

\* q = [(k,v) for k,v in q if k not in BAD]
DropBad(q) ==
    LET idx == SelectIdx(Len(q), {i \in 1..Len(q) : q[i][1] \notin BAD})
        pair(i) == q[idx[i]]
    IN  Tuple([ix \in 1..Len(idx) |-> pair(ix)])

\* urllib.parse.urlencode
UrlEncode(q) ==
    LET field(i) == Quote(q[i][1]) \o <<"=">> \o Quote(q[i][2])
    IN  Join(Tuple([ix \in 1..Len(q) |-> field(ix)]), "&")

\* urllib.parse.urlunparse
UrlUnparse(pr) ==
    LET withNet ==
            IF pr.netloc # <<>> \/ (pr.scheme /\ ~StartsWith(pr.path, <<"/", "/">>))
            THEN <<"/", "/">> \o pr.netloc
                 \o (IF pr.path # <<>> /\ Head(pr.path) # "/" THEN <<"/">> ELSE <<>>)
                 \o pr.path
            ELSE pr.path
        withScheme == IF pr.scheme THEN <<"https:">> \o withNet ELSE withNet
    IN  IF pr.query # <<>> THEN withScheme \o <<"?">> \o pr.query ELSE withScheme

\* The site origin "https://www.qoo10.jp".
ORIGIN == <<"https:", "/", "/", "www.qoo10.jp">>

NormUrl(u) ==
    IF u = <<>> THEN <<>>
    ELSE LET u1 == Strip(u)
             u2 == IF StartsWith(u1, <<"/", "/">>) THEN <<"https:">> \o u1 ELSE u1
             u3 == IF StartsWith(u2, <<"/">>) THEN ORIGIN \o u2 ELSE u2
             pr == UrlParse(u3)
             q  == DropBad(ParseQsl(pr.query))
         IN  Lower(UrlUnparse([pr EXCEPT !.query = UrlEncode(q)]))

----------------------------------------------------------------------------
(* _norm_product_code, app.py 394-400 *)

Digit == {"0", "1", "2", "3", "4", "5", "6", "7", "8", "9"}

RECURSIVE DropZeros(_)
DropZeros(s) == IF Len(s) > 1 /\ Head(s) = "0" THEN DropZeros(Tail(s)) ELSE s

\* NaN gives "".  A value that float() reads and that is_integer() gives
\* str(int(f)): digits, leading zeros and a fraction of zeros dropped.
\* Anything else gives str(v).strip().
NormProductCode(v) ==
    IF v = NaN THEN <<>>
    ELSE LET s     == Strip(v)
             dot   == Find(s, ".")
             ip    == IF dot = 0 THEN s ELSE SubSeq(s, 1, dot-1)
             fp    == IF dot = 0 THEN <<>> ELSE From(s, dot+1)
             float == /\ \A i \in 1..Len(ip) : ip[i] \in Digit
                      /\ \A i \in 1..Len(fp) : fp[i] \in Digit
                      /\ (ip # <<>> \/ fp # <<>>)
             whole == \A i \in 1..Len(fp) : fp[i] = "0"
         IN  IF float /\ whole
             THEN DropZeros(IF ip = <<>> THEN <<"0">> ELSE ip)
             ELSE s

----------------------------------------------------------------------------
(* Tables.  A row is [rank, product_code, url]; a rank cell is a number,   *)
(* NaN (missing) or a text that is no number.                              *)

Num(n)    == [t |-> "int", n |-> n]
RankNaN   == [t |-> "nan", n |-> 0]
RankText  == [t |-> "str", n |-> 0]

Row(r, code, url) == [rank |-> r, product_code |-> code, url |-> url]

\* keyify, app.py 415-422: every row gets key = normalised product code,
\* or the normalised url when that is empty; the rows stay as they are, in
\* their order, indexed by key.  _norm_url raises AttributeError on a NaN
\* cell (a float has no strip()).
KeyOf(row) ==
    LET code == NormProductCode(row.product_code)
    IN  IF code # <<>> THEN code ELSE NormUrl(row.url)

KeyifyRaises(rows) == \E i \in 1..Len(rows) : rows[i].url = NaN

Keyify(rows) ==
    LET keyed(i) == [key |-> KeyOf(rows[i]), rank |-> rows[i].rank]
    IN  Tuple([ix \in 1..Len(rows) |-> keyed(ix)])

\* set(df.index)
IndexKeys(df) == {df[i].key : i \in 1..Len(df)}

\* df[df["rank"] <= 30]: the rows whose rank is a number at most 30.
WINDOW == 30
RankAtMost(df, w) ==
    LET idx == SelectIdx(Len(df), {i \in 1..Len(df) : df[i].rank.t = "int" /\ df[i].rank.n <= w})
        row(i) == df[idx[i]]
    IN  Tuple([ix \in 1..Len(idx) |-> row(ix)])

\* df.loc[k]: the rows indexed by k.
Loc(df, k) == {i \in 1..Len(df) : df[i].key = k}

\* df.loc[k, "rank"] when k indexes one row.
RankOf(df, k) == df[CHOOSE i \in Loc(df, k) : TRUE].rank

----------------------------------------------------------------------------
(* build_sections, app.py 425-483 *)

MAX_FALLING == 5
TOP_N == 10

Min(a, b) == IF a < b THEN a ELSE b
Max(a, b) == IF a > b THEN a ELSE b

\* The order of Python on tuples of numbers of one length.
RECURSIVE LexLess(_, _)
LexLess(a, b) ==
    /\ a # <<>>
    /\ \/ a[1] < b[1]
       \/ a[1] = b[1] /\ LexLess(Tail(a), Tail(b))

\* list.sort / sort_values: a stable sort of s, keys[i] the sort key of s[i].
SortBy(s, keys) ==
    LET n      == Len(s)
        at(i)  == 1 + Cardinality({j \in 1..n : \/ LexLess(keys[j], keys[i])
                                                \/ (~LexLess(keys[i], keys[j]) /\ j < i)})
        pos    == Tuple([ix \in 1..n |-> at(ix)])
        el(p)  == s[CHOOSE i \in 1..n : pos[i] = p]
    IN  Tuple([ix \in 1..n |-> el(ix)])

\* s[:n]
Take(s, n) == SubSeq(s, 1, Min(Len(s), Max(0, n)))

\* The test of line 443 without its len(): an empty table counts as present.
HasPrev_NotNone(prev) == ~prev.none

\* line 443: the previous table counts only when it is there and has rows.
HasPrev(prev) == ~prev.none /\ Len(prev.rows) > 0

\* The marker looked up in the top-30 window of the previous index only.
Marker_InWindow(prev_all, k, cr) ==
    LET p30 == RankAtMost(prev_all, WINDOW)
    IN  IF Loc(p30, k) = {} THEN [kind |-> "new", d |-> 0]
        ELSE LET d == RankOf(p30, k).n - cr
             IN  IF d > 0 THEN [kind |-> "up", d |-> d]
                 ELSE IF d < 0 THEN [kind |-> "down", d |-> -d]
                 ELSE [kind |-> "", d |-> 0]

\* lines 447-452: the movement marker of a Top-10 row with key k and
\* current rank cr, looked up in the whole previous index.
Marker(prev_all, k, cr) ==
    LET hit == Loc(prev_all, k)
    IN  IF hit = {} THEN [kind |-> "new", d |-> 0]
        ELSE LET pr == RankOf(prev_all, k)
                 d  == pr.n - cr
             IN  IF pr.t = "nan" THEN [kind |-> "new", d |-> 0]
                 ELSE IF d > 0 THEN [kind |-> "up", d |-> d]
                 ELSE IF d < 0 THEN [kind |-> "down", d |-> -d]
                 ELSE [kind |-> "", d |-> 0]

\* lines 449-450: a key that indexes several previous rows makes the test a
\* Series (ValueError); a rank that is text makes int() fail (ValueError).
MarkerRaises(prev_all, k) ==
    LET hit == Loc(prev_all, k)
    IN  \/ Cardinality(hit) > 1
        \/ Cardinality(hit) = 1 /\ RankOf(prev_all, k).t = "str"

\* sort_values("rank"): the sort key of a row.
RankKey(row) == <<row.rank.n>>

\* line 445: dropna(subset=["rank"]).sort_values("rank").head(10)
TopRows(today) ==
    LET idx    == SelectIdx(Len(today), {i \in 1..Len(today) : today[i].rank.t = "int"})
        row(i) == today[idx[i]]
        rows   == Tuple([ix \in 1..Len(idx) |-> row(ix)])
        keys   == Tuple([ix \in 1..Len(idx) |-> RankKey(row(ix))])
    IN  Take(SortBy(rows, keys), TOP_N)

\* lines 444-455: the Top-10 lines.
Top10(today, hasPrev, prev_all) ==
    LET rows    == TopRows(today)
        line(i) == LET k == KeyOf(rows[i])
                   IN  [ rank   |-> rows[i].rank.n,
                         key    |-> k,
                         marker |-> IF hasPrev THEN Marker(prev_all, k, rows[i].rank.n)
                                    ELSE [kind |-> "", d |-> 0] ]
    IN  Tuple([ix \in 1..Len(rows) |-> line(ix)])

Top10Raises(today, prev_all) ==
    LET rows == TopRows(today)
    IN  \E i \in 1..Len(rows) : MarkerRaises(prev_all, KeyOf(rows[i]))

\* line 459: comparing a rank column that holds text with 30 is a TypeError.
RankCompareRaises(df) == \E i \in 1..Len(df) : df[i].rank.t = "str"

\* line 460
Common(t30, p30) == IndexKeys(t30) \cap IndexKeys(p30)

\* Out without the subtraction: every key of the previous window.
Out_KeepsCommon(t30, p30) == IndexKeys(p30)

Out(t30, p30) == IndexKeys(p30) \ IndexKeys(t30)

\* line 482, first summand
NewKeys(t30, p30) == IndexKeys(t30) \ IndexKeys(p30)

\* lines 464 and 475: int() of a Series of several ranks is a TypeError.
Ambiguous(df, keys) == \E k \in keys : Cardinality(Loc(df, k)) > 1

\* line 469: key=lambda x:(-x[0], x[1], x[2], x[4]).  The display name x[4]
\* is reached only when drop, cr and pr all tie, which no two movers do:
\* each mover has its own current rank.
MoverKey(m) == <<0 - m.drop, m.cr, m.pr>>

\* lines 465-466: drop = cr - pr, and a mover is a key with drop > 0.
Drop(pr, cr) == cr - pr

\* The test of line 466 with the unchanged keys let in.
IsMover_OrEqual(pr, cr) == Drop(pr, cr) >= 0

IsMover(pr, cr) == Drop(pr, cr) > 0

\* lines 462-469: the common keys that moved down, sorted.
Movers(t30, p30) ==
    LET common   == Common(t30, p30)
        idx      == SelectIdx(Len(t30), {i \in 1..Len(t30) :
                        /\ t30[i].key \in common
                        /\ IsMover(RankOf(p30, t30[i].key).n, t30[i].rank.n)})
        mover(i) == LET cr == t30[idx[i]].rank.n
                        pr == RankOf(p30, t30[idx[i]].key).n
                    IN  [drop |-> Drop(pr, cr), cr |-> cr, pr |-> pr, key |-> t30[idx[i]].key]
        found    == Tuple([ix \in 1..Len(idx) |-> mover(ix)])
        keys     == Tuple([ix \in 1..Len(idx) |-> MoverKey(found[ix])])
    IN  SortBy(found, keys)

\* line 475: sorted(list(out), key=previous rank).  A set has no order of its
\* own and the sort is stable, so keys of equal previous rank may come out
\* in either order: every outcome is in this set.
RECURSIVE OutOrders(_, _)
OutOrders(p30, out) ==
    IF out = {} THEN {<<>>}
    ELSE LET least == {k \in out : \A j \in out : RankOf(p30, k).n <= RankOf(p30, j).n}
         IN  UNION {{<<k>> \o s : s \in OutOrders(p30, out \ {k})} : k \in least}

\* The backfill of lines 474-479 run whether or not the movers filled the cap.
Falling_AlwaysBackfills(movers, p30, outs_sorted, cap) ==
    LET chosen  == Take(movers, cap)
        fill    == Take(outs_sorted, cap)
        fall(i) == [kind |-> "fall", key |-> chosen[i].key, pr |-> chosen[i].pr,
                    cr |-> chosen[i].cr, drop |-> chosen[i].drop]
        gone(i) == [kind |-> "out", key |-> fill[i], pr |-> RankOf(p30, fill[i]).n,
                    cr |-> 0, drop |-> 0]
    IN  Tuple([ix \in 1..Len(chosen) |-> fall(ix)]) \o Tuple([ix \in 1..Len(fill) |-> gone(ix)])

\* lines 470-479: at most cap lines, the movers first, then dropped keys.
Falling(movers, p30, outs_sorted, cap) ==
    LET chosen  == Take(movers, cap)
        fill    == IF Len(chosen) < cap THEN Take(outs_sorted, cap - Len(chosen)) ELSE <<>>
        fall(i) == [kind |-> "fall", key |-> chosen[i].key, pr |-> chosen[i].pr,
                    cr |-> chosen[i].cr, drop |-> chosen[i].drop]
        gone(i) == [kind |-> "out", key |-> fill[i], pr |-> RankOf(p30, fill[i]).n,
                    cr |-> 0, drop |-> 0]
    IN  Tuple([ix \in 1..Len(chosen) |-> fall(ix)]) \o Tuple([ix \in 1..Len(fill) |-> gone(ix)])

\* The count of line 482 with the common keys counted in.
InOutCount_CountsCommon(t30, p30, out) ==
    Cardinality(IndexKeys(t30)) + Cardinality(out)

\* line 482
InOutCount(t30, p30, out) ==
    Cardinality(NewKeys(t30, p30)) + Cardinality(out)

\* line 426: S as build_sections starts with it, with the locals the
\* comparison fills in.
EmptyS ==
    [ exc |-> "none", has_prev |-> FALSE, top10 |-> <<>>, falling |-> <<>>,
      outs |-> <<>>, inout_count |-> 0,
      prev_all |-> <<>>, df_t |-> <<>>, t30 |-> <<>>, p30 |-> <<>>,
      common |-> {}, out |-> {}, new |-> {}, movers |-> <<>> ]

\* build_sections has returned (no previous table) or raised.
Over(L) == ~L.has_prev \/ L.exc # "none"

\* line 443: prev_all = keyify(df_prev) when df_prev is there and has rows.
KeyifyPrev(prev) ==
    IF ~HasPrev(prev) THEN EmptyS
    ELSE IF KeyifyRaises(prev.rows)
    THEN [EmptyS EXCEPT !.exc = "AttributeError", !.has_prev = TRUE]
    ELSE [EmptyS EXCEPT !.has_prev = TRUE, !.prev_all = Keyify(prev.rows)]

\* lines 444-457: S["top10"], and the return when there is no previous table.
TopTen(today, L) ==
    IF L.exc # "none" THEN L
    ELSE IF L.has_prev /\ Top10Raises(today, L.prev_all)
    THEN [L EXCEPT !.exc = "ValueError"]
    ELSE [L EXCEPT !.top10 = Top10(today, L.has_prev, L.prev_all)]

\* line 459: df_t = keyify(df_today)
KeyifyToday(today, L) ==
    IF Over(L) THEN L ELSE [L EXCEPT !.df_t = Keyify(today)]

\* line 459: t30, then p30.
Windows(L) ==
    IF Over(L) THEN L
    ELSE IF RankCompareRaises(L.prev_all)
    THEN [L EXCEPT !.exc = "TypeError", !.top10 = <<>>,
                   !.t30 = RankAtMost(L.df_t, WINDOW)]
    ELSE [L EXCEPT !.t30 = RankAtMost(L.df_t, WINDOW),
                   !.p30 = RankAtMost(L.prev_all, WINDOW)]

\* line 460: common, out
CommonOut(L) ==
    IF Over(L) THEN L
    ELSE [L EXCEPT !.common = Common(L.t30, L.p30), !.out = Out(L.t30, L.p30)]

\* lines 462-469: movers
SortedMovers(L) ==
    IF Over(L) THEN L
    ELSE IF Ambiguous(L.t30, L.common) \/ Ambiguous(L.p30, L.common)
    THEN [L EXCEPT !.exc = "TypeError", !.top10 = <<>>]
    ELSE [L EXCEPT !.movers = Movers(L.t30, L.p30)]

\* lines 443-469: the locals of build_sections up to the sorted movers, and
\* the exception that ends it ("none" when it goes on).
Locals(today, prev) ==
    SortedMovers(CommonOut(Windows(KeyifyToday(today, TopTen(today, KeyifyPrev(prev))))))

\* line 474: the dropped keys are sorted only when fewer than cap movers
\* were chosen (cap is MAX_FALLING).
BackfillsAt(L, cap) == L.has_prev /\ L.exc = "none" /\ Len(Take(L.movers, cap)) < cap

Backfills(L) == BackfillsAt(L, MAX_FALLING)

\* The orders line 475 can produce; one empty order when it is not reached
\* or raises.
PossibleOutOrdersAt(L, cap) ==
    IF BackfillsAt(L, cap) /\ ~Ambiguous(L.p30, L.out)
    THEN OutOrders(L.p30, L.out)
    ELSE {<<>>}

PossibleOutOrders(L) == PossibleOutOrdersAt(L, MAX_FALLING)

\* lines 470-483: the rest of build_sections.
FinishAt(L, outs_sorted, cap) ==
    IF ~L.has_prev \/ L.exc # "none" THEN L
    ELSE IF BackfillsAt(L, cap) /\ Ambiguous(L.p30, L.out)
    THEN [L EXCEPT !.exc = "TypeError", !.top10 = <<>>, !.movers = <<>>]
    ELSE [L EXCEPT !.falling = Falling(L.movers, L.p30, outs_sorted, cap),
                   !.outs = <<>>,
                   !.new = NewKeys(L.t30, L.p30),
                   !.inout_count = InOutCount(L.t30, L.p30, L.out)]

Finish(L, outs_sorted) == FinishAt(L, outs_sorted, MAX_FALLING)

----------------------------------------------------------------------------
(* The tables build_sections is called with *)

MaxTail == 30      \* catalogue rows of today's chart below its head
MaxPrevBase == 6   \* catalogue rows of the previous chart

DigitTok == <<"0", "1", "2", "3", "4", "5", "6", "7", "8", "9">>

\* str(n) for a natural number n
RECURSIVE DigitsOf(_)
DigitsOf(n) ==
    IF n < 10 THEN <<DigitTok[n + 1]>>
    ELSE DigitsOf(n \div 10) \o <<DigitTok[(n % 10) + 1]>>

Product(code, url) == [product_code |-> code, url |-> url]

\* The i-th product of the catalogue as parse_mobile_html extracts it
\* (lines 195-206): its goods code 10+i and its href.
Catalogue(i) == Product(DigitsOf(10 + i), <<"/", "a">>)

\* lines 202-204: the parser keeps two products apart when code-or-href,
\* as written, differ.
RawKey(p) == IF p.product_code # <<>> THEN p.product_code ELSE p.url

\* What stands at the top of today's chart, above the catalogue rows: nothing,
\* a product without a code and a product of the catalogue that climbed, a
\* product whose code is written with a leading zero, a product without a
\* code, or two hrefs of one page that differ in case and in a tracking
\* parameter.
Heads ==
    { <<>>,
      <<Product(<<>>, <<"/", "b">>), Catalogue(3)>>,
      <<Product(<<"0", "1", "1">>, <<"/", "a">>)>>,
      <<Product(<<>>, <<"/", "b">>)>>,
      <<Product(<<>>, <<"/", "b">>), Product(<<>>, <<"/", "B", "?", "g", "=", "1">>)>> }

\* The first t catalogue products that the head h does not hold.
TailOf(h, t) ==
    LET inHead  == {RawKey(h[i]) : i \in 1..Len(h)}
        n       == t + Len(h)
        idx     == SelectIdx(n, {i \in 1..n : RawKey(Catalogue(i)) \notin inHead})
        prod(i) == Catalogue(idx[i])
    IN  Tuple([ix \in 1..Min(t, Len(idx)) |-> prod(ix)])

\* to_dataframe (lines 387-391) of the parser's items: rank = position
\* (line 206: Product(len(items)+1, ...)).
Ranked(prods) ==
    LET row(i) == Row(Num(i), prods[i].product_code, prods[i].url)
    IN  Tuple([ix \in 1..Len(prods) |-> row(ix)])

TodayTables ==
    { Ranked(h \o TailOf(h, t)) : h \in Heads, t \in 0..MaxTail } \ {<<>>}

\* Products a previous file can hold beyond its catalogue rows.  read_csv
\* gives a code column with a gap as floats ("11.0") and an empty cell as NaN.
ExtraPool ==
    { Product(<<"1", "1", ".", "0">>, <<"/", "a">>),
      Product(<<"1", "7">>, <<"/", "a">>),
      Product(<<"4", "0">>, <<"/", "a">>),
      Product(NaN, <<"/", "b">>),
      Product(NaN, <<" ">>),
      Product(NaN, NaN) }

ExtraRanks == {Num(1), Num(WINDOW + 1), RankNaN, RankText}

\* No further row, or one.
ExtraRows ==
    {<<>>} \cup {<<Row(r, p.product_code, p.url)>> : r \in ExtraRanks, p \in ExtraPool}

PrevTables ==
    {[none |-> TRUE, rows |-> <<>>]}
    \cup { [none |-> FALSE, rows |-> Ranked(Tuple([ix \in 1..m |-> Catalogue(ix)])) \o x]
           : m \in 0..MaxPrevBase, x \in ExtraRows }

----------------------------------------------------------------------------
(* The run: main calls build_sections, then build_slack_message *)

NoMsg == [top10 |-> <<>>, falling |-> <<>>, inout_count |-> 0]

Init ==
    /\ pc = "call"
    /\ df_today \in TodayTables
    /\ df_prev \in PrevTables
    /\ S = EmptyS
    /\ msg = NoMsg
    /\ u_in = <<>> /\ u_once = <<>> /\ u_twice = <<>>
    /\ u_alt = <<>> /\ k_alt = <<>>
    /\ block_text = <<>> /\ prices = NoPrices
    /\ max_rank = MAX_RANK /\ max_falling = MAX_FALLING
    /\ lis = <<>> /\ items = <<>>

\* line 578: S = build_sections(df_today, df_prev)
CallBuildSections ==
    /\ pc = "call"
    /\ \E L \in {Locals(df_today, df_prev)} :
          \E outs_sorted \in PossibleOutOrders(L) : S' = Finish(L, outs_sorted)
    /\ pc' = IF S'.exc = "none" THEN "returned" ELSE "raised"
    /\ UNCHANGED <<df_today, df_prev, msg, u_in, u_once, u_twice,
                   variantVars, priceVars, parserVars>>

\* lines 486-490 and 579: the message names the Top 10, the falling lines
\* (or one line saying there are none) and the in/out count.
BuildSlackMessage ==
    /\ pc = "returned"
    /\ msg' = [ top10 |-> S.top10,
                falling |-> IF S.falling # <<>> THEN S.falling ELSE <<"none">>,
                inout_count |-> S.inout_count ]
    /\ pc' = "posted"
    /\ UNCHANGED <<df_today, df_prev, S, u_in, u_once, u_twice,
                   variantVars, priceVars, parserVars>>

\* lines 586-590: an exception of main is reported and raised again.
ReportFailure ==
    /\ pc = "raised"
    /\ pc' = "failed"
    /\ UNCHANGED <<df_today, df_prev, S, msg, u_in, u_once, u_twice,
                   variantVars, priceVars, parserVars>>

Next == CallBuildSections \/ BuildSlackMessage \/ ReportFailure

Spec == Init /\ [][Next]_vars

----------------------------------------------------------------------------
(* _norm_url applied to a locator, and to its own result *)

MaxUrlLen == 4

UrlChars == {"/", "?", "&", "=", "g", "G", "a"}

Locators == UNION {[1..n -> UrlChars] : n \in 0..MaxUrlLen}

InitUrl ==
    /\ pc = "url"
    /\ u_in \in Locators
    /\ u_once = <<>> /\ u_twice = <<>>
    /\ df_today = <<>> /\ df_prev = [none |-> TRUE, rows |-> <<>>]
    /\ S = EmptyS /\ msg = NoMsg
    /\ u_alt = <<>> /\ k_alt = <<>>
    /\ block_text = <<>> /\ prices = NoPrices
    /\ max_rank = MAX_RANK /\ max_falling = MAX_FALLING
    /\ lis = <<>> /\ items = <<>>

NormaliseOnce ==
    /\ pc = "url"
    /\ u_once' = NormUrl(u_in)
    /\ pc' = "once"
    /\ UNCHANGED <<u_in, u_twice, df_today, df_prev, S, msg,
                   variantVars, priceVars, parserVars>>

NormaliseAgain ==
    /\ pc = "once"
    /\ u_twice' = NormUrl(u_once)
    /\ pc' = "twice"
    /\ UNCHANGED <<u_in, u_once, df_today, df_prev, S, msg,
                   variantVars, priceVars, parserVars>>

NextUrl == NormaliseOnce \/ NormaliseAgain

SpecUrl == InitUrl /\ [][NextUrl]_vars

----------------------------------------------------------------------------
(* _norm_url applied to two locators that are one page written twice *)

\* The ways to write u with other letter case.
RECURSIVE CaseVariants(_)
CaseVariants(u) ==
    IF u = <<>> THEN {<<>>}
    ELSE { <<c>> \o v : c \in {x \in UrlChars : LowerTok(x) = LowerTok(Head(u))},
                        v \in CaseVariants(Tail(u)) }

\* u with the tracking parameter name=a added to its query.
WithTracking(u, name) ==
    IF Find(u, "?") = 0 THEN u \o <<"?">> \o name \o <<"=", "a">>
    ELSE u \o <<"&">> \o name \o <<"=", "a">>

\* u with other letter case only.
OnlyCaseDiffers(u, v) == v \in CaseVariants(u)

\* u with one more tracking parameter only.
OnlyTrackingDiffers(u, v) == \E name \in BAD : v = WithTracking(u, name)

InitVariant ==
    /\ pc = "pair"
    /\ u_in \in Locators
    /\ u_alt \in CaseVariants(u_in) \cup {WithTracking(u_in, name) : name \in BAD}
    /\ u_once = <<>> /\ u_twice = <<>> /\ k_alt = <<>>
    /\ df_today = <<>> /\ df_prev = [none |-> TRUE, rows |-> <<>>]
    /\ S = EmptyS /\ msg = NoMsg
    /\ block_text = <<>> /\ prices = NoPrices
    /\ max_rank = MAX_RANK /\ max_falling = MAX_FALLING
    /\ lis = <<>> /\ items = <<>>

\* line 419: keyify normalises the url of every row.
NormaliseBoth ==
    /\ pc = "pair"
    /\ u_once' = NormUrl(u_in)
    /\ k_alt' = NormUrl(u_alt)
    /\ pc' = "keyed"
    /\ UNCHANGED <<u_in, u_twice, u_alt, df_today, df_prev, S, msg,
                   priceVars, parserVars>>

NextVariant == NormaliseBoth

SpecVariant == InitVariant /\ [][NextVariant]_vars

----------------------------------------------------------------------------
(* The float arithmetic of line 88: (1 - sale / orig) * 100 in IEEE 754     *)
(* doubles.  A number is a sequence of bits, most significant first, with a *)
(* fixed count of bits before the binary point; every operation gives the   *)
(* exact result rounded to 53 significant bits, ties to even.               *)

\* The significand of a double.
MANT == 53

RECURSIVE Pow2(_)
Pow2(k) == IF k = 0 THEN 1 ELSE 2 * Pow2(k - 1)

\* 2^k modulo o
RECURSIVE PowMod(_, _)
PowMod(k, o) ==
    IF k = 0 THEN 1 % o
    ELSE IF k % 2 = 1 THEN (2 * PowMod(k - 1, o)) % o
    ELSE (PowMod(k \div 2, o) * PowMod(k \div 2, o)) % o

\* The i-th bit behind the point of the binary fraction s/o (s < o).
FractionBit(s, o, i) == (2 * ((s * PowMod(i - 1, o)) % o)) \div o

\* The zero bits behind the point before the first 1 of s/o (0 < s < o).
RECURSIVE FractionZeros(_, _)
FractionZeros(s, o) == IF 2 * s >= o THEN 0 ELSE 1 + FractionZeros(2 * s, o)

LeadZeros(b) ==
    IF \A i \in 1..Len(b) : b[i] = 0 THEN Len(b)
    ELSE (CHOOSE i \in 1..Len(b) : b[i] = 1 /\ \A j \in 1..(i-1) : b[j] = 0) - 1

\* b plus one unit of its last place (a carry out of the first bit is lost).
Inc(b) ==
    Tuple([ix \in 1..Len(b) |->
              IF \A j \in (ix+1)..Len(b) : b[j] = 1 THEN 1 - b[ix] ELSE b[ix]])

\* b rounded to MANT significant bits, ties to even; sticky tells that the
\* exact value has more behind the bits of b.
RoundBits(b, sticky) ==
    IF Len(b) <= LeadZeros(b) + MANT THEN b
    ELSE IF /\ b[LeadZeros(b) + MANT + 1] = 1
            /\ \/ sticky
               \/ \E i \in (LeadZeros(b) + MANT + 2)..Len(b) : b[i] = 1
               \/ b[LeadZeros(b) + MANT] = 1
         THEN Inc(SubSeq(b, 1, LeadZeros(b) + MANT))
         ELSE SubSeq(b, 1, LeadZeros(b) + MANT)

\* sale / orig for 0 < sale < orig: one bit before the point.
FloatDiv(s, o) ==
    RoundBits(<<0>> \o Tuple([ix \in 1..(FractionZeros(s, o) + MANT + 1) |->
                                 FractionBit(s, o, ix)]),
              (s * PowMod(FractionZeros(s, o) + MANT + 1, o)) % o # 0)

\* 1 - q for 0 < q < 1: the two's complement of q without its first bit.
FloatOneMinus(q) ==
    RoundBits(<<0>> \o Tail(Inc(Tuple([ix \in 1..Len(q) |-> 1 - q[ix]]))), FALSE)

RECURSIVE BitsToNat(_)
BitsToNat(b) ==
    IF b = <<>> THEN 0 ELSE 2 * BitsToNat(SubSeq(b, 1, Len(b) - 1)) + b[Len(b)]

\* Long numbers are multiplied in pieces of LIMB bits.
LIMB == 15

\* The pieces of a bit sequence whose length is a multiple of LIMB.
Limbs(b) ==
    Tuple([ix \in 1..(Len(b) \div LIMB) |->
              BitsToNat(SubSeq(b, LIMB * (ix - 1) + 1, LIMB * ix))])

\* The bits of a sequence of pieces.
LimbBits(limbs) ==
    Tuple([ix \in 1..(LIMB * Len(limbs)) |->
              (limbs[((ix - 1) \div LIMB) + 1] \div Pow2(LIMB - 1 - ((ix - 1) % LIMB))) % 2])

\* limbs * m + carry (a carry out of the first piece is lost).
RECURSIVE TimesLimbs(_, _, _)
TimesLimbs(limbs, m, carry) ==
    IF limbs = <<>> THEN <<>>
    ELSE TimesLimbs(SubSeq(limbs, 1, Len(limbs) - 1), m,
                    (limbs[Len(limbs)] * m + carry) \div Pow2(LIMB))
         \o <<(limbs[Len(limbs)] * m + carry) % Pow2(LIMB)>>

\* The zero bits that bring a sequence of n bits to whole pieces.
Padding(n) == (LIMB - (n % LIMB)) % LIMB

\* d * 100 for d with one bit before the point: eight bits before the point.
FloatTimes100(d) ==
    RoundBits(
        SubSeq(LimbBits(TimesLimbs(
                   Limbs(Tuple([ix \in 1..(Padding(Len(d) + 7) + 7) |-> 0]) \o d), 100, 0)),
               Padding(Len(d) + 7) + 1,
               Padding(Len(d) + 7) + Len(d) + 7),
        FALSE)

\* int(math.floor(x)) for x with eight bits before the point.
Floor(x) == BitsToNat(SubSeq(x \o <<0, 0, 0, 0, 0, 0, 0, 0>>, 1, 8))

\* line 88: max(0, int(math.floor((1 - sale / orig) * 100)))
ComputedPct(sale, orig) ==
    Max(0, Floor(FloatTimes100(FloatOneMinus(FloatDiv(sale, orig)))))

----------------------------------------------------------------------------
(* parse_jpy_amounts and compute_prices, app.py 71-89.  The text of a card  *)
(* is a sequence of words; a word is a sequence of characters, or one of    *)
(* the words the two patterns look for whole.                               *)

\* The yen sign of YEN_AMOUNT_RE, the "% OFF" of PCT_RE, any other word.
YEN == <<"yen">>
PCT_OFF == <<"%", "OFF">>
WORD == <<"x">>

\* \d{1,3}(?:,\d{3})+|\d+ : digits, with or without thousands separators.
IsNumber(w) == w # <<>> /\ \A i \in 1..Len(w) : w[i] \in Digit \cup {","}

DigitVal(c) == (CHOOSE i \in 1..10 : DigitTok[i] = c) - 1

\* int(m.group(1).replace(",", ""))
RECURSIVE IntOf(_)
IntOf(w) ==
    IF w = <<>> THEN 0
    ELSE IF w[Len(w)] = "," THEN IntOf(SubSeq(w, 1, Len(w) - 1))
    ELSE 10 * IntOf(SubSeq(w, 1, Len(w) - 1)) + DigitVal(w[Len(w)])

\* The positions of text where a number stands before the word unit.
Matches(text, unit) ==
    SelectIdx(Len(text), {i \in 1..Len(text) :
                             IsNumber(text[i]) /\ i < Len(text) /\ text[i+1] = unit})

\* lines 74-75: every amount YEN_AMOUNT_RE finds, in the order of the text.
ParseJpyAmounts(text) ==
    Tuple([ix \in 1..Len(Matches(text, YEN)) |-> IntOf(text[Matches(text, YEN)[ix]])])

\* min(amounts), max(amounts)
MinOf(s) == CHOOSE x \in {s[i] : i \in 1..Len(s)} : \A i \in 1..Len(s) : x <= s[i]
MaxOf(s) == CHOOSE x \in {s[i] : i \in 1..Len(s)} : \A i \in 1..Len(s) : x >= s[i]

\* lines 79-80: sale = min(amounts) when there are amounts.
SalePrice(amounts) == IF amounts # <<>> THEN Some(MinOf(amounts)) ELSE None

\* lines 81-83: orig = max(amounts) when there are two amounts or more and
\* the largest is not the smallest.
OrigPrice(amounts) ==
    IF Len(amounts) >= 2 /\ MaxOf(amounts) # MinOf(amounts)
    THEN Some(MaxOf(amounts)) ELSE None

\* The truth value Python gives an Optional[int]: None and 0 are false.
Truthy(v) == ~v.none /\ v.n # 0

\* lines 84-88: the percentage PCT_RE finds first, or else the one computed
\* from the two prices when both are there and not 0.
DiscountPct(text, sale, orig) ==
    IF Matches(text, PCT_OFF) # <<>>
    THEN Some(IntOf(text[Matches(text, PCT_OFF)[1]]))
    ELSE IF Truthy(orig) /\ Truthy(sale)
    THEN Some(ComputedPct(sale.n, orig.n))
    ELSE None

\* The tuple compute_prices returns for the amounts of a text.
PricesOf(text, amounts) ==
    [ sale |-> SalePrice(amounts),
      orig |-> OrigPrice(amounts),
      pct  |-> DiscountPct(text, SalePrice(amounts), OrigPrice(amounts)) ]

\* compute_prices, lines 77-89
ComputePrices(text) == PricesOf(text, ParseJpyAmounts(text))

\* The texts: up to MaxPhrases phrases, each an amount in yen, a
\* percentage, a number that stands alone or another word.
MaxPhrases == 3

YenNumbers ==
    { <<"0">>, <<"7", "5", "0">>, <<"7", "5", "1">>, <<"8", "0", "0">>,
      <<"9", "8", "0">>, <<"1", ",", "0", "0", "0">> }

Phrases ==
    {<<n, YEN>> : n \in YenNumbers}
    \cup {<<<<"3", "0">>, PCT_OFF>>, <<<<"5">>>>, <<WORD>>}

RECURSIVE BlocksOf(_)
BlocksOf(n) ==
    IF n = 0 THEN {<<>>}
    ELSE BlocksOf(n - 1) \cup {b \o p : b \in BlocksOf(n - 1), p \in Phrases}

InitPrices ==
    /\ pc = "card"
    /\ block_text \in BlocksOf(MaxPhrases)
    /\ prices = NoPrices
    /\ u_in = <<>> /\ u_once = <<>> /\ u_twice = <<>>
    /\ u_alt = <<>> /\ k_alt = <<>>
    /\ df_today = <<>> /\ df_prev = [none |-> TRUE, rows |-> <<>>]
    /\ S = EmptyS /\ msg = NoMsg
    /\ max_rank = MAX_RANK /\ max_falling = MAX_FALLING
    /\ lis = <<>> /\ items = <<>>

\* line 205: sale, _, pct = compute_prices(block)
CallComputePrices ==
    /\ pc = "card"
    /\ prices' = ComputePrices(block_text)
    /\ pc' = "priced"
    /\ UNCHANGED <<block_text, df_today, df_prev, S, msg, u_in, u_once, u_twice,
                   variantVars, parserVars>>

NextPrices == CallComputePrices

SpecPrices == InitPrices /\ [][NextPrices]_vars

----------------------------------------------------------------------------
(* parse_mobile_html and build_sections under a cap of any sign *)

\* A list item of the ranking page: whether it holds a product link
\* (line 194), whether is_ad_or_noise rejects it (line 200), and the href
\* and goods code read from it.
Card(anchor, noise, p) == [anchor |-> anchor, noise |-> noise, product |-> p]

\* line 206: Product(len(items)+1, brand, name, sale, pct, href, code)
Item(rank, p) == [rank |-> rank, product_code |-> p.product_code, url |-> p.url]

\* line 189: items and seen before the loop; done once the loop has broken.
NoItems == [items |-> <<>>, seen |-> {}, done |-> FALSE]

\* lines 193-209, one turn of the loop: the item is skipped (194, 200, 204)
\* or appended, and only after the append is its count held against the cap.
Visit(li, st, cap) ==
    IF st.done \/ ~li.anchor \/ li.noise \/ RawKey(li.product) \in st.seen
    THEN st
    ELSE [ items |-> Append(st.items, Item(Len(st.items) + 1, li.product)),
           seen  |-> st.seen \cup {RawKey(li.product)},
           done  |-> Len(st.items) + 1 >= cap ]

\* lines 192-209: the loop over the first n list items.
RECURSIVE Loop(_, _, _)
Loop(cards, n, cap) ==
    IF n = 0 THEN NoItems ELSE Visit(cards[n], Loop(cards, n - 1, cap), cap)

\* lines 185-213 (fetch_by_playwright, lines 302-341, runs the same loop)
ParseMobileHtml(cards, cap) == Loop(cards, Len(cards), cap).items

MaxCards == 3      \* list items of a page
MaxCap == 2        \* the greatest cap tried
MaxCapTail == 2    \* catalogue rows of today's chart below its head
MaxCapPrev == 4    \* catalogue rows of the previous chart

\* lines 35-36: the values MAX_RANK and MAX_FALLING take, below zero, zero
\* and above.
CapValues == (0 - 1)..MaxCap

\* Two products, a list item without a product link and an advertisement.
Cards ==
    { Card(TRUE, FALSE, Catalogue(1)), Card(TRUE, FALSE, Catalogue(2)),
      Card(FALSE, FALSE, Product(<<>>, <<>>)), Card(TRUE, TRUE, Catalogue(3)) }

Pages == UNION {[1..n -> Cards] : n \in 0..MaxCards}

\* Charts whose rows have one key each: nothing in them makes
\* build_sections raise.
CapHeads == { <<>>, <<Product(<<>>, <<"/", "b">>), Catalogue(3)>>, <<Catalogue(4)>> }

CapTodayTables ==
    { Ranked(h \o TailOf(h, t)) : h \in CapHeads, t \in 0..MaxCapTail } \ {<<>>}

CapPrevTables ==
    {[none |-> TRUE, rows |-> <<>>]}
    \cup { [none |-> FALSE, rows |-> Ranked(Tuple([ix \in 1..m |-> Catalogue(ix)]))]
           : m \in 0..MaxCapPrev }

InitCaps ==
    /\ pc = "caps"
    /\ max_rank \in CapValues
    /\ max_falling \in CapValues
    /\ lis \in Pages
    /\ items = <<>>
    /\ df_today \in CapTodayTables
    /\ df_prev \in CapPrevTables
    /\ S = EmptyS /\ msg = NoMsg
    /\ u_in = <<>> /\ u_once = <<>> /\ u_twice = <<>>
    /\ u_alt = <<>> /\ k_alt = <<>>
    /\ block_text = <<>> /\ prices = NoPrices

\* line 226: items = parse_mobile_html(r.text)
CallParseMobileHtml ==
    /\ pc = "caps"
    /\ items' = ParseMobileHtml(lis, max_rank)
    /\ pc' = "parsed"
    /\ UNCHANGED <<df_today, df_prev, S, msg, u_in, u_once, u_twice,
                   variantVars, priceVars, max_rank, max_falling, lis>>

\* line 578: S = build_sections(df_today, df_prev), MAX_FALLING being
\* max_falling
CallBuildSectionsCapped ==
    /\ pc = "parsed"
    /\ \E L \in {Locals(df_today, df_prev)} :
          \E outs_sorted \in PossibleOutOrdersAt(L, max_falling) :
              S' = FinishAt(L, outs_sorted, max_falling)
    /\ pc' = IF S'.exc = "none" THEN "sections" ELSE "raised"
    /\ UNCHANGED <<df_today, df_prev, msg, u_in, u_once, u_twice,
                   variantVars, priceVars, parserVars>>

NextCaps == CallParseMobileHtml \/ CallBuildSectionsCapped

SpecCaps == InitCaps /\ [][NextCaps]_vars

----------------------------------------------------------------------------
(* What the claims speak of, read off the two tables themselves *)

\* build_sections has returned.
Returned == pc \in {"returned", "posted"}

\* build_sections has returned from a comparison with a previous table.
Compared == Returned /\ S.has_prev

\* A table with the identity key of every row beside its rank.
Keyed(rows) ==
    LET keyed(i) == [key |-> KeyOf(rows[i]), rank |-> rows[i].rank]
    IN  Tuple([ix \in 1..Len(rows) |-> keyed(ix)])

\* The rows of a keyed table whose rank is a number at most w.
WindowRows(T, w) == {i \in 1..Len(T) : T[i].rank.t = "int" /\ T[i].rank.n <= w}

\* The keys of the records of rank <= w.
WindowKeys(T, w) == {T[i].key : i \in WindowRows(T, w)}

\* The ranks a key has among the records of rank <= w.
WindowRanks(T, w, k) == {T[i].rank.n : i \in {j \in WindowRows(T, w) : T[j].key = k}}

\* The keys of both windows whose rank number grew.
Fallers(T, P) ==
    {k \in WindowKeys(T, 30) \cap WindowKeys(P, 30) :
        \E cr \in WindowRanks(T, 30, k), pr \in WindowRanks(P, 30, k) : pr - cr < 0}

----------------------------------------------------------------------------
(* C1 *)

\* C1: after a comparison with a previous snapshot, every key of
\* currentWindow (today's records of rank <= 30) is in exactly one of
\* commonKeys and newKeys, and every key of previousWindow (previous records
\* of rank <= 30) is in exactly one of commonKeys and droppedKeys.
C1_ClassificationComplete ==
    Compared =>
        /\ \A k \in WindowKeys(Keyed(df_today), 30) : (k \in S.common) # (k \in S.new)
        /\ \A k \in WindowKeys(Keyed(df_prev.rows), 30) : (k \in S.common) # (k \in S.out)

\* A comparison in which all three classes are inhabited and a key of the
\* previous window stands below rank 30 today.
C1_Witness ==
    /\ Compared
    /\ S.common # {} /\ S.new # {} /\ S.out # {}
    /\ \E i \in 1..Len(df_today) :
          /\ df_today[i].rank.n > 30
          /\ KeyOf(df_today[i]) \in WindowKeys(Keyed(df_prev.rows), 30)

----------------------------------------------------------------------------
(* C2 *)

\* C2: after a comparison, a key of both windows is among the fallers
\* exactly when delta = previousRank - currentRank < 0; each faller carries
\* its two ranks and the drop magnitude currentRank - previousRank = |delta|;
\* keys with delta >= 0 are not among the fallers.
C2_FallerSign ==
    Compared =>
        LET T == Keyed(df_today)
            P == Keyed(df_prev.rows)
        IN  /\ \A k \in WindowKeys(T, 30) \cap WindowKeys(P, 30) :
                  \A cr \in WindowRanks(T, 30, k), pr \in WindowRanks(P, 30, k) :
                     (\E i \in 1..Len(S.movers) : S.movers[i].key = k) <=> (pr - cr < 0)
            /\ \A i \in 1..Len(S.movers) :
                  LET m == S.movers[i]
                  IN  /\ m.cr \in WindowRanks(T, 30, m.key)
                      /\ m.pr \in WindowRanks(P, 30, m.key)
                      /\ m.pr - m.cr < 0
                      /\ m.drop = m.cr - m.pr

\* A comparison with a faller of magnitude above 1, a riser and an
\* unchanged key side by side.
C2_Witness ==
    /\ Compared
    /\ \E i \in 1..Len(S.movers) : S.movers[i].drop > 1
    /\ LET T == Keyed(df_today)
           P == Keyed(df_prev.rows)
       IN  /\ \E k \in S.common :
                 \E cr \in WindowRanks(T, 30, k), pr \in WindowRanks(P, 30, k) : pr > cr
           /\ \E k \in S.common :
                 \E cr \in WindowRanks(T, 30, k), pr \in WindowRanks(P, 30, k) : pr = cr

----------------------------------------------------------------------------
(* C3 *)

\* The order of the falling list among fallers: larger drop first, then
\* lower current rank, then lower previous rank.
FallsBefore(a, b) ==
    \/ a.drop > b.drop
    \/ a.drop = b.drop /\ a.cr < b.cr
    \/ a.drop = b.drop /\ a.cr = b.cr /\ a.pr < b.pr

\* A faller as the falling list shows it.
FallerEntry(T, P, k) ==
    LET cr == CHOOSE r \in WindowRanks(T, 30, k) : TRUE
        pr == CHOOSE r \in WindowRanks(P, 30, k) : TRUE
    IN  [kind |-> "fall", key |-> k, pr |-> pr, cr |-> cr, drop |-> cr - pr]

\* C3: after a comparison the falling list has at most MAX_FALLING = 5
\* entries: the fallers in the order largest drop, lower current rank, lower
\* previous rank, cut to 5; dropped keys are added only when there are fewer
\* than 5 fallers, after every faller, in ascending previous rank, until 5
\* entries are reached or both lists are exhausted.
C3_FallingList ==
    Compared =>
        LET T       == Keyed(df_today)
            P       == Keyed(df_prev.rows)
            F       == S.falling
            falls   == {i \in 1..Len(F) : F[i].kind = "fall"}
            outs    == {i \in 1..Len(F) : F[i].kind = "out"}
            fallers == Fallers(T, P)
            dropped == WindowKeys(P, 30) \ WindowKeys(T, 30)
        IN  /\ Len(F) <= 5
            /\ \A i \in falls, j \in outs : i < j
            /\ \A i \in falls : F[i].key \in fallers /\ F[i] = FallerEntry(T, P, F[i].key)
            /\ \A i, j \in falls : i < j => FallsBefore(F[i], F[j])
            /\ \A k \in fallers :
                  (\A i \in falls : F[i].key # k) =>
                      /\ Cardinality(falls) = 5
                      /\ \A i \in falls : FallsBefore(F[i], FallerEntry(T, P, k))
            /\ outs # {} => Cardinality(fallers) < 5
            /\ \A i \in outs :
                  /\ F[i].key \in dropped
                  /\ F[i].pr \in WindowRanks(P, 30, F[i].key)
            /\ \A i, j \in outs : i < j => F[i].pr <= F[j].pr /\ F[i].key # F[j].key
            /\ \A k \in dropped :
                  (\A i \in outs : F[i].key # k) =>
                      /\ Len(F) = 5
                      /\ \A i \in outs, pr \in WindowRanks(P, 30, k) : F[i].pr <= pr

\* A full falling list that holds fallers of different drops and dropped
\* keys, with a dropped key left over.
C3_Witness ==
    /\ Compared
    /\ Len(S.falling) = 5
    /\ \E i, j \in 1..5 : /\ S.falling[i].kind = "fall" /\ S.falling[j].kind = "fall"
                          /\ S.falling[i].drop > S.falling[j].drop
    /\ \E i \in 1..5 : S.falling[i].kind = "out"
    /\ \E k \in S.out : \A i \in 1..5 : S.falling[i].key # k

----------------------------------------------------------------------------
(* C4 *)

\* The rows of a keyed table that hold key k with a rank that is not
\* missing: the records of that key in the full snapshot.
Records(P, k) == {i \in 1..Len(P) : P[i].key = k /\ P[i].rank.t # "nan"}

\* C4: the Top-10 list is the 10 lowest-ranked records of the full current
\* snapshot in ascending rank.  With a previous snapshot, the marker of an
\* entry is looked up among all previous records, whatever their rank:
\* "up d" when previousRank - currentRank = d > 0, "down |d|" when d < 0,
\* none when d = 0, and "New" exactly when the full previous snapshot has no
\* record of the key.
C4_Top10 ==
    Returned =>
        LET T    == Keyed(df_today)
            P    == Keyed(df_prev.rows)
            top  == S.top10
            rows == {[rank |-> T[i].rank.n, key |-> T[i].key] : i \in 1..Len(T)}
            of(e) == [rank |-> e.rank, key |-> e.key]
        IN  /\ Len(top) = Min(10, Len(T))
            /\ \A i \in 1..Len(top) : of(top[i]) \in rows
            /\ \A i, j \in 1..Len(top) : i < j => top[i].rank < top[j].rank
            /\ \A r \in rows :
                  (\A i \in 1..Len(top) : of(top[i]) # r) =>
                      \A i \in 1..Len(top) : top[i].rank < r.rank
            /\ S.has_prev =>
                  \A i \in 1..Len(top) :
                     LET m == top[i].marker
                     IN  /\ (m.kind = "new") <=> (Records(P, top[i].key) = {})
                         /\ \A j \in Records(P, top[i].key) :
                               LET d == P[j].rank.n - top[i].rank
                               IN  /\ d > 0 => m = [kind |-> "up", d |-> d]
                                   /\ d < 0 => m = [kind |-> "down", d |-> -d]
                                   /\ d = 0 => m = [kind |-> "", d |-> 0]

\* A chart of more than 10 records whose Top 10 holds a key that stood
\* below rank 30 before, a key that is new and a key that did not move.
C4_Witness ==
    /\ Compared
    /\ Len(df_today) > 10
    /\ \E i \in 1..Len(S.top10) :
          /\ S.top10[i].marker.kind = "up"
          /\ S.top10[i].marker.d + S.top10[i].rank > 30
    /\ \E i \in 1..Len(S.top10) : S.top10[i].marker.kind = "new"
    /\ \E i \in 1..Len(S.top10) :
          /\ S.top10[i].marker.kind = ""
          /\ Records(Keyed(df_prev.rows), S.top10[i].key) # {}

----------------------------------------------------------------------------
(* C5 *)

\* C5: after a comparison the in/out count, as computed and as reported, is
\* |newKeys| + |droppedKeys| with newKeys = currentWindow - previousWindow and
\* droppedKeys = previousWindow - currentWindow, both windows cut at rank
\* <= 30; keys of both windows do not count.
C5_InOutCount ==
    Compared =>
        LET cw    == WindowKeys(Keyed(df_today), 30)
            pw    == WindowKeys(Keyed(df_prev.rows), 30)
            count == Cardinality(cw \ pw) + Cardinality(pw \ cw)
        IN  /\ S.inout_count = count
            /\ pc = "posted" => msg.inout_count = count

\* A reported count of new and dropped keys beside common keys, one of the
\* dropped keys standing below rank 30 today.
C5_Witness ==
    /\ pc = "posted" /\ S.has_prev
    /\ S.common # {} /\ S.new # {} /\ S.out # {}
    /\ msg.inout_count = Cardinality(S.new) + Cardinality(S.out)
    /\ \E i \in 1..Len(df_today) :
          df_today[i].rank.n > 30 /\ KeyOf(df_today[i]) \in S.out

----------------------------------------------------------------------------
(* C6 *)

\* C6: when the previous snapshot is absent (None, or a table without rows)
\* build_sections raises nothing, the falling and dropped lists are empty,
\* the in/out count is 0, and the Top-10 list is produced without markers.
C6_FirstRun ==
    (pc # "call" /\ (df_prev.none \/ df_prev.rows = <<>>)) =>
        /\ Returned
        /\ S.exc = "none"
        /\ S.falling = <<>> /\ S.outs = <<>> /\ S.inout_count = 0
        /\ Len(S.top10) = Min(10, Len(df_today))
        /\ \A i \in 1..Len(S.top10) :
              /\ S.top10[i].rank = i
              /\ S.top10[i].key = KeyOf(df_today[i])
              /\ S.top10[i].marker = [kind |-> "", d |-> 0]

\* build_sections returned on a previous table that is there but has no rows.
C6_Witness ==
    /\ Returned
    /\ ~df_prev.none /\ df_prev.rows = <<>>
    /\ Len(S.top10) = 10

----------------------------------------------------------------------------
(* C7 *)

\* Two rows of a keyed table share their key.
HasDuplicateKey(X) == \E i, j \in 1..Len(X) : i < j /\ X[i].key = X[j].key

\* Every row is well formed but for duplicates: a numeric rank, a url, a key.
WellFormed(rows) ==
    \A i \in 1..Len(rows) :
        rows[i].rank.t = "int" /\ rows[i].url # NaN /\ KeyOf(rows[i]) # <<>>

\* The index holds one record per key, the lowest-ranked of the table.
FirstSeenWins(index, X) ==
    \A k \in IndexKeys(X) :
        /\ Cardinality(Loc(index, k)) = 1
        /\ \A i \in 1..Len(X) : X[i].key = k => RankOf(index, k).n <= X[i].rank.n

\* C7: when two records of one snapshot (current or previous) have the same
\* identity key, the index holds one record for that key, the earlier-ranked
\* one, and the comparison completes without raising.
C7_DuplicateKeyFirstWins ==
    LET T == Keyed(df_today)
        P == Keyed(df_prev.rows)
    IN  ( /\ pc # "call"
          /\ HasPrev(df_prev)
          /\ WellFormed(df_today) /\ WellFormed(df_prev.rows)
          /\ (HasDuplicateKey(T) \/ HasDuplicateKey(P)) )
        => /\ Returned
           /\ FirstSeenWins(S.df_t, T)
           /\ FirstSeenWins(S.prev_all, P)

----------------------------------------------------------------------------
(* C8 *)

\* C8: a record whose normalised product code and normalised url are both
\* empty is left out of the index: no index, current or previous, holds the
\* empty string as a key.
C8_NoEmptyKey ==
    pc # "call" => <<>> \notin IndexKeys(S.prev_all) \cup IndexKeys(S.df_t)

----------------------------------------------------------------------------
(* C9 *)

\* The rows of a table whose rank is a number.
WithoutMalformed(rows) ==
    LET idx    == SelectIdx(Len(rows), {i \in 1..Len(rows) : rows[i].rank.t = "int"})
        row(i) == rows[idx[i]]
    IN  Tuple([ix \in 1..Len(idx) |-> row(ix)])

\* C9: when a row of the previous snapshot has a missing or non-numeric
\* rank, build_sections raises nothing and its Top-10 markers, falling list
\* and in/out count are those of the previous snapshot without that row.
C9_MalformedRowSkipped ==
    LET T == Keyed(df_today)
        P == Keyed(df_prev.rows)
    IN  ( /\ pc # "call"
          /\ ~df_prev.none
          /\ \E i \in 1..Len(df_prev.rows) : df_prev.rows[i].rank.t # "int"
          /\ \A i \in 1..Len(df_prev.rows) :
                df_prev.rows[i].url # NaN /\ P[i].key # <<>>
          /\ ~HasDuplicateKey(T) /\ ~HasDuplicateKey(P) )
        => /\ Returned
           /\ LET L == Locals(df_today,
                              [none |-> FALSE, rows |-> WithoutMalformed(df_prev.rows)])
              IN  \E o \in PossibleOutOrders(L) :
                     /\ S.top10 = Finish(L, o).top10
                     /\ S.falling = Finish(L, o).falling
                     /\ S.inout_count = Finish(L, o).inout_count

----------------------------------------------------------------------------
(* C10 *)

\* C10: _norm_url is idempotent: normalising a normalised locator changes
\* nothing, also when query-parameter names are written in upper case.
C10_NormUrlIdempotent ==
    pc = "twice" => u_twice = u_once

----------------------------------------------------------------------------
(* C11 *)

\* C11: two locators that differ only in tracking query parameters, or only
\* in letter case, have the same key under _norm_url.
C11_TrackingCaseInvariant ==
    (pc = "keyed" /\ (OnlyCaseDiffers(u_in, u_alt) \/ OnlyTrackingDiffers(u_in, u_alt)))
        => u_once = k_alt

----------------------------------------------------------------------------
(* C12 *)

\* The amounts of the text that are not 0.
NonZeroAmounts(text) ==
    {ParseJpyAmounts(text)[i] : i \in 1..Len(ParseJpyAmounts(text))} \ {0}

\* C12: for a text with at least one yen amount that is not 0, compute_prices
\* returns as sale price the smallest amount that is not 0, never 0.
C12_ZeroAmountExcluded ==
    (pc = "priced" /\ NonZeroAmounts(block_text) # {})
        => /\ ~prices.sale.none
           /\ prices.sale.n # 0
           /\ prices.sale.n \in NonZeroAmounts(block_text)
           /\ \A a \in NonZeroAmounts(block_text) : prices.sale.n <= a

----------------------------------------------------------------------------
(* C13 *)

\* floor((1 - sale/orig) * 100) of the rational numbers, at least 0.
ExactPct(sale, orig) ==
    IF sale >= orig THEN 0 ELSE ((orig - sale) * 100) \div orig

\* C13: the discount percentage compute_prices returns is the number of an
\* explicit "N% OFF" when the text has one; or else, when a sale price and
\* an original price are both returned and the original price is above 0,
\* floor((1 - sale/orig) * 100), at least 0; or else None.  Texts whose
\* sale price comes out as 0 are left aside: C12 is about them.
C13_DiscountPercent ==
    (pc = "priced" /\ (prices.sale.none \/ prices.sale.n # 0)) =>
        prices.pct =
            IF \E i \in 1..(Len(block_text) - 1) :
                   IsNumber(block_text[i]) /\ block_text[i+1] = PCT_OFF
            THEN Some(IntOf(block_text[
                     CHOOSE i \in 1..(Len(block_text) - 1) :
                         /\ IsNumber(block_text[i]) /\ block_text[i+1] = PCT_OFF
                         /\ \A j \in 1..(i-1) :
                                ~(IsNumber(block_text[j]) /\ block_text[j+1] = PCT_OFF)]))
            ELSE IF ~prices.sale.none /\ ~prices.orig.none /\ prices.orig.n > 0
            THEN Some(ExactPct(prices.sale.n, prices.orig.n))
            ELSE None

\* C14: a cap of zero or less gives zero-length output and no exception:
\* parse_mobile_html returns no record when MAX_RANK <= 0 and never more
\* than MAX_RANK records; build_sections returns, with an empty falling list
\* when MAX_FALLING <= 0.
C14_CapsClampToEmpty ==
    /\ pc \in {"parsed", "sections", "raised"} =>
          /\ Len(items) <= Max(0, max_rank)
          /\ max_rank <= 0 => items = <<>>
    /\ (pc \in {"sections", "raised"} /\ max_falling <= 0) =>
          /\ pc = "sections"
          /\ S.falling = <<>>

====
